---- MODULE Spec2Model ----
(***************************************************************************)
(* Model of the user-account controller (src/src/controllers/              *)
(* user.controller.ts): createUser, loginUser, getUsers, toggleUserStatus, *)
(* deleteUsers and verifyUser, running as concurrent request handlers      *)
(* against one User table whose primary key is (email, createdAt).  A step *)
(* of a handler is one call of the store together with the local           *)
(* computation before it (the checks of the request body, the hashing) and *)
(* after it (the answer); the handlers of different requests interleave    *)
(* between their steps.  A request's email addresses are the numbers       *)
(* 1..NumEmails, the instants of the store's clock the numbers 1..NumTimes.*)
(***************************************************************************)
EXTENDS Integers, FiniteSets, Sequences, Bags, TLC

\* ---------------------------------------------------------------- bounds
NumEmails == 2
NumTimes == 2
MaxRequests == 4

Emails == 1..NumEmails
\* the values of the column createdAt
Times == 1..NumTimes
\* the handlers that run at the same time: a request and one that overlaps it
Procs == {1, 2}


\* a falsy userEmail / email of a request body (undefined or "")
NoEmail == 0
\* a falsy name or password of a request body
Missing == ""
Names == {"ann"}
\* the passwords accounts are registered with, and those tried at login
Passwords == {"pw1"}
Attempts == {"pw1", "pw2"}

\* ---------------------------------------------------- HTTP status codes
StatusOk == 200
StatusAccepted == 202
StatusBadRequest == 400
StatusUnauthorized == 401

\* ------------------------------------------------------------- messages
MsgRequired == "All fields are required."
MsgEmailUsed == "Email is already used."
MsgInvalid == "Invalid credentials."
MsgBlocked == "This account is blocked."
MsgNoneSelected == "No users were selected."
MsgSelfBlocked == "You have blocked your own account."
MsgSelfDeleted == "You have deleted your own account."
MsgToggled == "user(s) status has changed."
MsgDeleted == "user(s) have been deleted."
MsgInternal == "Internal error. Please try again."
MsgDeleteError == "Error. Please try again."
MsgVerify == "Your account has been blocked or deleted."
\* a success body that carries data instead of a message
BodyData == "data"

VARIABLES
    db,          \* the User table: a set of rows
    proc,        \* proc[p]: the request handler running in slot p
    hist,        \* history of the sequential specification (SpecSeq)
    started      \* number of requests received (Spec)

vars == <<db, proc, hist, started>>

\* ---------------------------------------------------------------- rows
\* bcrypt.hash(password, saltRounds): a one-way digest of the plaintext
Hash(password) == <<"$2b$10$", password>>

\* bcrypt.compare(password, hash)
Compare(password, hash) == hash = Hash(password)

\* a new row: the handler sends name, email and password; the store fills
\* in createdAt and isActive (BOOLEAN NOT NULL DEFAULT true)
NewRow(name, email, hashed, createdAt) ==
    [email |-> email, createdAt |-> createdAt, name |-> name,
     password |-> hashed, isActive |-> TRUE]

\* the null a findFirst without a match returns
NoRow ==
    [email |-> NoEmail, createdAt |-> 0, name |-> Missing,
     password |-> <<>>, isActive |-> FALSE]

\* ------------------------------------------------------ store operations
\* where: { email }
RowsOf(table, email) == {r \in table : r.email = email}

\* prisma.user.findFirst({ where: { email } }): null, or one of the rows
\* with that email (the query gives no order)
FindFirst(table, email) ==
    IF RowsOf(table, email) = {} THEN {NoRow} ELSE RowsOf(table, email)

\* the list a findMany returns, as a bag: one { email, isActive } per row
Selected(rows) ==
    LET sel(r) == [email |-> r.email, isActive |-> r.isActive]
    IN  [u \in {sel(r) : r \in rows} |-> Cardinality({r \in rows : sel(r) = u})]

\* (variant: a findMany without the where clause)
FindManyAll(table, emails) == Selected(table)

\* prisma.user.findMany({ where: { email: { in: emails } },
\*                        select: { email, isActive } })
FindMany(table, emails) == Selected({r \in table : r.email \in emails})

\* CONSTRAINT "User_pkey" PRIMARY KEY ("email", "createdAt"): an insert of a
\* present (email, createdAt) is rejected
UniqueViolation(table, email, createdAt) ==
    \E r \in table : r.email = email /\ r.createdAt = createdAt

\* prisma.user.update({ where: { email }, data: { isActive } })
Update(table, email, isActive) ==
    {IF r.email = email THEN [r EXCEPT !.isActive = isActive] ELSE r : r \in table}

\* prisma.user.deleteMany({ where: { email: { in: emails } } })
DeleteMany(table, emails) == {r \in table : r.email \notin emails}

\* ------------------------------------------------------------ responses
Response(status, success, message, count) ==
    [status |-> status, success |-> success, message |-> message, count |-> count]

NoResp == Response(0, FALSE, "", 0)

\* ------------------------------------------------------------- handlers
Idle ==
    [op |-> "none", pc |-> "idle", userEmail |-> NoEmail, hasEmails |-> FALSE,
     emails |-> {}, found |-> EmptyBag, resp |-> NoResp]

Free(p) == proc[p].pc \in {"idle", "done"}

\* the handler has answered: only the answer outlives the request
Done(req, resp) == [Idle EXCEPT !.op = req.op, !.pc = "done", !.resp = resp]

\* a call as the sequential history records it: its inputs, the table it
\* started from, whether it went past verifyUser, and its answer once the
\* next call has begun
Call(op, email, hasEmails, emails, pre, passed) ==
    [op |-> op, userEmail |-> email, hasEmails |-> hasEmails, emails |-> emails,
     pre |-> pre, passed |-> passed, resp |-> NoResp]
NoCall == Call("none", NoEmail, FALSE, {}, {}, FALSE)
NoHist == [cur |-> NoCall, last |-> NoCall]

Init ==
    /\ db = {}
    /\ proc = [p \in Procs |-> Idle]
    /\ hist = NoHist
    /\ started = 0

\* ------------------------------------------------------------ createUser
\* prisma.user.create and the handler's answer to its outcome
CreateUserResult(table, name, email, hashed, createdAt) ==
    IF UniqueViolation(table, email, createdAt)
    THEN [db |-> table,
          resp |-> Response(StatusBadRequest, FALSE, MsgEmailUsed, 0)]
    ELSE [db |-> table \cup {NewRow(name, email, hashed, createdAt)},
          resp |-> Response(StatusOk, TRUE, BodyData, 0)]

\* the handler makes one call of the store, so it is one step; createdAt is
\* the instant at which the store inserts the row
CreateUser(p, name, email, password, createdAt) ==
    LET req == [Idle EXCEPT !.op = "createUser", !.userEmail = email]
        r == CreateUserResult(db, name, email, Hash(password), createdAt)
    IN  /\ Free(p)
        /\ IF name = Missing \/ email = NoEmail \/ password = Missing
           THEN /\ proc' = [proc EXCEPT ![p] =
                        Done(req, Response(StatusBadRequest, FALSE, MsgRequired, 0))]
                /\ db' = db
           ELSE /\ proc' = [proc EXCEPT ![p] = Done(req, r.resp)]
                /\ db' = r.db

\* ------------------------------------------------------------- loginUser
\* (variant: an unknown email answered apart from a wrong password)
LoginResponseLeaky(response, email, password) ==
    IF email = NoEmail \/ password = Missing
    THEN Response(StatusBadRequest, FALSE, MsgRequired, 0)
    ELSE IF response = NoRow
    THEN Response(404, FALSE, "User not found.", 0)
    ELSE IF ~Compare(password, response.password)
    THEN Response(StatusUnauthorized, FALSE, MsgInvalid, 0)
    ELSE IF ~response.isActive
    THEN Response(StatusBadRequest, FALSE, MsgBlocked, 0)
    ELSE Response(StatusOk, TRUE, BodyData, 0)

\* the handler's answer; response is what findFirst returned
LoginResponse(response, email, password) ==
    IF email = NoEmail \/ password = Missing
    THEN Response(StatusBadRequest, FALSE, MsgRequired, 0)
    ELSE IF response = NoRow
    THEN Response(StatusUnauthorized, FALSE, MsgInvalid, 0)
    ELSE IF ~Compare(password, response.password)
    THEN Response(StatusUnauthorized, FALSE, MsgInvalid, 0)
    ELSE IF ~response.isActive
    THEN Response(StatusBadRequest, FALSE, MsgBlocked, 0)
    ELSE Response(StatusOk, TRUE, BodyData, 0)

LoginUser(p, email, password) ==
    LET req == [Idle EXCEPT !.op = "loginUser", !.userEmail = email]
    IN  /\ Free(p)
        /\ \E response \in FindFirst(db, email) :
              proc' = [proc EXCEPT ![p] = Done(req, LoginResponse(response, email, password))]
        /\ UNCHANGED db

\* -------------------------------------------------------------- getUsers
GetUsers(p) ==
    LET req == [Idle EXCEPT !.op = "getUsers"]
    IN  /\ Free(p)
        /\ proc' = [proc EXCEPT ![p] =
                Done(req, Response(StatusOk, TRUE, BodyData, Cardinality(db)))]
        /\ UNCHANGED db

\* ------------------------------------------- toggleUserStatus/deleteUsers
\* (variant: the handlers without the check of an empty selection)
BulkValidationNoEmpty(userEmail, hasEmails, emails) ==
    IF userEmail = NoEmail \/ ~hasEmails
    THEN Response(StatusBadRequest, FALSE, MsgRequired, 0)
    ELSE NoResp

\* the two checks that open both bulk handlers
BulkValidation(userEmail, hasEmails, emails) ==
    IF userEmail = NoEmail \/ ~hasEmails
    THEN Response(StatusBadRequest, FALSE, MsgRequired, 0)
    ELSE IF Cardinality(emails) = 0
    THEN Response(StatusOk, FALSE, MsgNoneSelected, 0)
    ELSE NoResp

\* (variant: a verifyUser that does not look at isActive)
VerifyUserExists(user) == user # NoRow

\* verifyUser passes: findFirst returned a row and it is active
VerifyUser(user) == user # NoRow /\ user.isActive

\* a bulk handler up to the answer of verifyUser, its first call of the store
BulkBegin(p, op, userEmail, hasEmails, emails) ==
    LET req == [Idle EXCEPT !.op = op, !.userEmail = userEmail,
                            !.hasEmails = hasEmails, !.emails = emails]
        early == BulkValidation(userEmail, hasEmails, emails)
    IN  /\ Free(p)
        /\ hasEmails \/ emails = {}
        /\ \E user \in FindFirst(db, userEmail) :
              proc' = [proc EXCEPT ![p] =
                IF early # NoResp
                THEN Done(req, early)
                ELSE IF ~VerifyUser(user)
                THEN Done(req, Response(StatusUnauthorized, FALSE, MsgVerify, 0))
                ELSE [req EXCEPT !.pc = IF op = "toggleUserStatus" THEN "find" ELSE "delete"]]
        /\ UNCHANGED db

ToggleBegin(p, userEmail, hasEmails, emails) ==
    BulkBegin(p, "toggleUserStatus", userEmail, hasEmails, emails)

DeleteBegin(p, userEmail, hasEmails, emails) ==
    BulkBegin(p, "deleteUsers", userEmail, hasEmails, emails)

\* usersToUpdate
ToggleFind(p) ==
    /\ proc[p].pc = "find"
    /\ proc' = [proc EXCEPT ![p] =
            [proc[p] EXCEPT !.pc = "tx", !.found = FindMany(db, proc[p].emails)]]
    /\ UNCHANGED db

\* (variant: an answer that does not look for the actor among the targets)
BulkResponsePlain(req, count) ==
    Response(StatusOk, TRUE,
             IF req.op = "toggleUserStatus" THEN MsgToggled ELSE MsgDeleted, count)

\* the answer of both bulk handlers after the mutation
BulkResponse(req, count) ==
    IF req.userEmail \in req.emails
    THEN Response(StatusAccepted, TRUE,
                  IF req.op = "toggleUserStatus" THEN MsgSelfBlocked ELSE MsgSelfDeleted, 0)
    ELSE Response(StatusOk, TRUE,
                  IF req.op = "toggleUserStatus" THEN MsgToggled ELSE MsgDeleted, count)

\* the answer of a bulk handler's catch block to a store error
BulkStoreError(req) ==
    Response(StatusBadRequest, FALSE,
             IF req.op = "toggleUserStatus" THEN MsgInternal ELSE MsgDeleteError, 0)

\* (variant: a batch that blocks instead of toggling)
ToggledOff(isActive) == FALSE

\* data: { isActive: !user.isActive }
Toggled(isActive) == ~isActive

\* toggleUpdates: one update per user found, with the value findMany read
ToggleUpdates(found) ==
    {[email |-> u.email, isActive |-> Toggled(u.isActive)] : u \in BagToSet(found)}

\* prisma.$transaction(updates): the updates run one after the other, in
\* the order of the list (findMany gives its rows in no fixed order); an
\* update of an email that has no row throws and the transaction rolls
\* back.  The outcomes: the tables the batch may leave, or none on a throw
RECURSIVE Transaction(_, _)
Transaction(table, updates) ==
    IF updates = {} THEN {table}
    ELSE IF \E u \in updates : RowsOf(table, u.email) = {} THEN {}
    ELSE UNION {Transaction(Update(table, u.email, u.isActive), updates \ {u}) :
                    u \in updates}

\* await prisma.$transaction(toggleUpdates) and the handler's answer
ToggleTransaction(p) ==
    LET outcomes == Transaction(db, ToggleUpdates(proc[p].found))
    IN  /\ proc[p].pc = "tx"
        /\ IF outcomes = {}
           THEN /\ proc' = [proc EXCEPT ![p] = Done(proc[p], BulkStoreError(proc[p]))]
                /\ db' = db
           ELSE /\ db' \in outcomes
                /\ proc' = [proc EXCEPT ![p] =
                        Done(proc[p], BulkResponse(proc[p], BagCardinality(proc[p].found)))]

\* prisma.user.deleteMany and the handler's answer
DeleteStore(p) ==
    /\ proc[p].pc = "delete"
    /\ db' = DeleteMany(db, proc[p].emails)
    /\ proc' = [proc EXCEPT ![p] =
            Done(proc[p], BulkResponse(proc[p],
                 Cardinality(db) - Cardinality(DeleteMany(db, proc[p].emails))))]

\* ------------------------------------------------------- specifications
\* Spec: the table starts empty; MaxRequests requests arrive, each taking
\* the first free handler, and the handlers run concurrently
Arrive(p) ==
    /\ started < MaxRequests
    /\ Free(p)
    /\ \A q \in Procs : q < p => ~Free(q)
    /\ started' = started + 1
    /\ UNCHANGED hist
Go == UNCHANGED <<hist, started>>

Next ==
    \/ \E p \in Procs, name \in Names \cup {Missing}, email \in Emails \cup {NoEmail},
          password \in Passwords \cup {Missing}, createdAt \in Times :
            Arrive(p) /\ CreateUser(p, name, email, password, createdAt)
    \/ \E p \in Procs, email \in Emails \cup {NoEmail}, password \in Attempts \cup {Missing} :
            Arrive(p) /\ LoginUser(p, email, password)
    \/ \E p \in Procs : Arrive(p) /\ GetUsers(p)
    \/ \E p \in Procs, userEmail \in Emails \cup {NoEmail}, hasEmails \in BOOLEAN,
          emails \in SUBSET Emails :
            Arrive(p) /\ ToggleBegin(p, userEmail, hasEmails, emails)
    \/ \E p \in Procs, userEmail \in Emails \cup {NoEmail}, hasEmails \in BOOLEAN,
          emails \in SUBSET Emails :
            Arrive(p) /\ DeleteBegin(p, userEmail, hasEmails, emails)
    \/ \E p \in Procs : ToggleFind(p) /\ Go
    \/ \E p \in Procs : ToggleTransaction(p) /\ Go
    \/ \E p \in Procs : DeleteStore(p) /\ Go

Spec == Init /\ [][Next]_vars

\* SpecSeq: the table starts empty; one client sends MaxRequests requests,
\* one at a time, and waits for each answer.  The history keeps the current call and, when
\* the call before it was the same toggle, that call with its answer
Client == CHOOSE p \in Procs : \A q \in Procs : p <= q

\* the client sends its next request
Send == started < MaxRequests /\ started' = started + 1

Begin(op, email, hasEmails, emails) ==
    hist' = [cur |-> Call(op, email, hasEmails, emails, db,
                         proc'[Client].pc \in {"find", "delete"}),
             last |-> IF /\ op = "toggleUserStatus"
                         /\ hist.cur.op = op
                         /\ hist.cur.userEmail = email
                         /\ hist.cur.hasEmails = hasEmails
                         /\ hist.cur.emails = emails
                      THEN [hist.cur EXCEPT !.resp = proc[Client].resp]
                      ELSE NoCall]

NextSeq ==
    \/ \E name \in Names \cup {Missing}, email \in Emails \cup {NoEmail},
          password \in Passwords \cup {Missing}, createdAt \in Times :
            /\ Send
            /\ CreateUser(Client, name, email, password, createdAt)
            /\ Begin("createUser", email, FALSE, {})
    \/ \E email \in Emails \cup {NoEmail}, password \in Attempts \cup {Missing} :
            /\ Send
            /\ LoginUser(Client, email, password)
            /\ Begin("loginUser", email, FALSE, {})
    \/ Send /\ GetUsers(Client) /\ Begin("getUsers", NoEmail, FALSE, {})
    \/ \E userEmail \in Emails \cup {NoEmail}, hasEmails \in BOOLEAN, emails \in SUBSET Emails :
            /\ Send
            /\ ToggleBegin(Client, userEmail, hasEmails, emails)
            /\ Begin("toggleUserStatus", userEmail, hasEmails, emails)
    \/ \E userEmail \in Emails \cup {NoEmail}, hasEmails \in BOOLEAN, emails \in SUBSET Emails :
            /\ Send
            /\ DeleteBegin(Client, userEmail, hasEmails, emails)
            /\ Begin("deleteUsers", userEmail, hasEmails, emails)
    \/ ToggleFind(Client) /\ Go
    \/ ToggleTransaction(Client) /\ Go
    \/ DeleteStore(Client) /\ Go

SpecSeq == Init /\ [][NextSeq]_vars

\* ---------------------------------------------------------- properties
Answered(p) == proc[p].pc = "done"
Bulk == {"toggleUserStatus", "deleteUsers"}

\* the current call of SpecSeq is a bulk call that passed the validation
\* of its fields and names at least one target
SeqBulk ==
    /\ hist.cur.op \in Bulk
    /\ hist.cur.userEmail # NoEmail
    /\ hist.cur.hasEmails
    /\ hist.cur.emails # {}

\* the isActive value of every account of a table
ActiveOf(table) == {[email |-> r.email, isActive |-> r.isActive] : r \in table}

Outside(table, emails) == {r \in table : r.email \notin emails}

\* the actor has an account and it is active
ActorOk(table, email) == \E r \in table : r.email = email /\ r.isActive

\* C2: during and after a toggleUserStatus or deleteUsers call, successful
\* or failed, every account whose email is not a target is still there with
\* its name, password hash and isActive as before the call
C2_Frame ==
    hist.cur.op \in Bulk =>
        Outside(db, hist.cur.emails) = Outside(hist.cur.pre, hist.cur.emails)

\* a bulk call changed the table and left an account that is no target
C2_Witness ==
    /\ Answered(Client)
    /\ hist.cur.op \in Bulk
    /\ db # hist.cur.pre
    /\ Outside(db, hist.cur.emails) # {}

Succeeded(resp) == resp.status \in {StatusOk, StatusAccepted} /\ resp.success

\* two toggleUserStatus calls in a row with the same actor and the same
\* targets have both gone through
TwiceDone ==
    /\ Answered(Client)
    /\ hist.last # NoCall
    /\ Succeeded(hist.last.resp)
    /\ Succeeded(proc[Client].resp)

C4_ActorRefused ==
    (Answered(Client) /\ SeqBulk /\ ~ActorOk(hist.cur.pre, hist.cur.userEmail))
        => /\ proc[Client].resp =
                Response(StatusUnauthorized, FALSE, MsgVerify, 0)
           /\ db = hist.cur.pre

\* a blocked actor was refused although every target is an existing account
C4_Witness ==
    /\ Answered(Client)
    /\ SeqBulk
    /\ \E r \in hist.cur.pre : r.email = hist.cur.userEmail /\ ~r.isActive
    /\ \A e \in hist.cur.emails : RowsOf(hist.cur.pre, e) # {}
    /\ proc[Client].resp.status = StatusUnauthorized

\* C5: a bulk call that passed validation and authorization (verifyUser
\* did not throw) is answered 202 exactly when the actor's email is among
\* the targets, and 200 otherwise
C5_SelfSignal ==
    (Answered(Client) /\ SeqBulk /\ hist.cur.passed)
        => /\ (proc[Client].resp.status = StatusAccepted)
                <=> (hist.cur.userEmail \in hist.cur.emails)
           /\ hist.cur.userEmail \notin hist.cur.emails
                => proc[Client].resp.status = StatusOk

\* a bulk call with the actor among several targets was answered 202
C5_Witness ==
    /\ Answered(Client)
    /\ SeqBulk
    /\ hist.cur.passed
    /\ ActorOk(hist.cur.pre, hist.cur.userEmail)
    /\ hist.cur.userEmail \in hist.cur.emails
    /\ hist.cur.emails # {hist.cur.userEmail}
    /\ proc[Client].resp.status = StatusAccepted

\* C6: on every table, a login with an email that has no account and a
\* login with an account's email and a wrong password get the same answer,
\* status 401 and the same message
C6_UniformAuthError ==
    \A e1, e2 \in Emails, w1, w2 \in Attempts :
        \A r1 \in FindFirst(db, e1), r2 \in FindFirst(db, e2) :
            (r1 = NoRow /\ r2 # NoRow /\ ~Compare(w2, r2.password))
                => /\ LoginResponse(r1, e1, w1) = LoginResponse(r2, e2, w2)
                   /\ LoginResponse(r1, e1, w1).status = StatusUnauthorized

\* a login on a blocked account was answered 401 while another email has
\* no account
C6_Witness ==
    /\ Answered(Client)
    /\ hist.cur.op = "loginUser"
    /\ proc[Client].resp.status = StatusUnauthorized
    /\ \E r \in db : r.email = hist.cur.userEmail /\ ~r.isActive
    /\ \E e \in Emails : RowsOf(db, e) = {}

\* C7: at most one account per email in every state, and a createUser for
\* an email that has an account is answered 400 "Email is already used."
\* and leaves the table as it is: a createUser step either changes nothing
\* and answers 400, or answers 200 and adds one active account under an
\* email that had none
UniqueEmails == \A r1, r2 \in db : r1.email = r2.email => r1 = r2

\* the handler a request that arrives now will run in
ArrivalSlot(p) == Free(p) /\ \A q \in Procs : q < p => ~Free(q)

CreateStep ==
    \A p \in Procs :
        (started' # started /\ ArrivalSlot(p) /\ proc'[p].op = "createUser")
            => \/ db' = db /\ proc'[p].resp.status = StatusBadRequest
               \/ /\ proc'[p].resp.status = StatusOk
                  /\ \E r \in db' : /\ db' = db \cup {r}
                                    /\ RowsOf(db, r.email) = {}
                                    /\ r.isActive

C7_UniqueEmail == []UniqueEmails /\ [][CreateStep]_vars

\* the answers with which a bulk handler reports an error
BulkErrors(op) ==
    {Response(StatusBadRequest, FALSE, MsgRequired, 0),
     Response(StatusUnauthorized, FALSE, MsgVerify, 0),
     BulkStoreError([op |-> op])}

\* the current call of SpecSeq is a bulk call with an actor email and an
\* empty target list, and it has been answered
EmptySelection ==
    /\ Answered(Client)
    /\ hist.cur.op \in Bulk
    /\ hist.cur.userEmail # NoEmail
    /\ hist.cur.hasEmails
    /\ hist.cur.emails = {}

\* C8 as stated: a bulk call with an actor email and an empty target list
\* gets a success result (status 200, success: true) that is none of the
\* handler's error answers, and changes no account, whatever the actor's
\* state
C8_Original ==
    EmptySelection
        => /\ proc[Client].resp.status = StatusOk
           /\ proc[Client].resp.success
           /\ proc[Client].resp \notin BulkErrors(hist.cur.op)
           /\ db = hist.cur.pre

\* C8 amended: a bulk call with an actor email and an empty target list is
\* answered status 200 with success: false and "No users were selected.",
\* an answer that differs in status and message from each of the handler's
\* error answers, and changes no account, whatever the actor's state
C8_EmptySelection ==
    EmptySelection
        => /\ proc[Client].resp = Response(StatusOk, FALSE, MsgNoneSelected, 0)
           /\ \A e \in BulkErrors(hist.cur.op) :
                    /\ e.status # proc[Client].resp.status
                    /\ e.message # proc[Client].resp.message
           /\ db = hist.cur.pre

\* an empty selection by a blocked actor was answered
C8_Witness ==
    /\ EmptySelection
    /\ \E r \in db : r.email = hist.cur.userEmail /\ ~r.isActive
    /\ proc[Client].resp.status = StatusOk

\* C9: an authorized toggleUserStatus call never fails over a target that
\* has no account, also when a concurrent deleteUsers removes the target
\* between the call's findMany and its transaction: it is answered 200 or 202
C9_NeverFails ==
    \A p \in Procs :
        (Answered(p) /\ proc[p].op = "toggleUserStatus")
            => proc[p].resp # BulkStoreError(proc[p])

\* C10: no bulk change is committed for an actor whose account is inactive
\* or absent at the moment of the commit
CommittedFor(p) ==
    /\ proc[p].pc \in {"tx", "delete"}
    /\ proc'[p].pc = "done"
    /\ db' # db

C10_ActorActiveAtCommit ==
    [][\A p \in Procs : CommittedFor(p) => ActorOk(db, proc[p].userEmail)]_vars

====
